---- MODULE Spec2Model ----
(***************************************************************************)
(* The token-authenticated account service: POST /auth/login, the          *)
(* Authorization middleware, and the three account routes, over the        *)
(* in-memory user store.                                                   *)
(*                                                                         *)
(* JavaScript values are records tagged by type, so that Number(), the     *)
(* typeof checks of bcrypt.compare and property lookup are computed and    *)
(* not assumed.  Amounts are integers (whole currency units); strings      *)
(* that reach Number() are sequences of one-character strings.             *)
(***************************************************************************)
EXTENDS Integers, Sequences, FiniteSets, TLC

VARIABLES
    users,        \* the store: own keys of the `users` object -> user record
    now,          \* the clock, in seconds (what jsonwebtoken reads)
    ticks,        \* how often the clock has advanced (bounds the run)
    comparing,    \* the logins suspended at `await bcrypt.compare`
    last,         \* the exchange answered most recently (history)
    issued,       \* tokens that login has answered with and a client holds
    withdrawals,  \* how many withdrawals have succeeded (bounds the run)
    withdrawn,    \* the sum of the amounts of the withdraws answered 200 (history)
    alive         \* FALSE once an unhandled rejection has ended the process

vars == <<users, now, ticks, comparing, last, issued, withdrawals, withdrawn, alive>>

----------------------------------------------------------------------------
(* Bounds of the model. *)
MaxSuspended == 1    \* logins that can be suspended at once
MaxTicks == 2        \* clock advances in one run
MaxIssued == 1       \* tokens the clients keep
MaxWithdrawals == 2  \* successful withdrawals in one run

TickSteps == {1, 3599}

----------------------------------------------------------------------------
(* JavaScript values. *)
JUndef == [t |-> "undefined"]
JNull == [t |-> "null"]
JNum(n) == [t |-> "num", n |-> n]
JBool(b) == [t |-> "bool", b |-> b]
JStr(s) == [t |-> "str", s |-> s]               \* an opaque string
JText(cs) == [t |-> "str", chars |-> cs]         \* a string spelled out
JArr(a) == [t |-> "arr", a |-> a]

\* A JavaScript number: NaN, or a finite integer.
NaN == [nan |-> TRUE, v |-> 0]
Fin(n) == [nan |-> FALSE, v |-> n]

Digits == [c \in {"0", "1", "2", "3", "4", "5", "6", "7", "8", "9"} |->
            CASE c = "0" -> 0 [] c = "1" -> 1 [] c = "2" -> 2 [] c = "3" -> 3
              [] c = "4" -> 4 [] c = "5" -> 5 [] c = "6" -> 6 [] c = "7" -> 7
              [] c = "8" -> 8 [] c = "9" -> 9]

RECURSIVE DigitsValue(_)
DigitsValue(cs) ==
    IF cs = <<>> THEN 0
    ELSE 10 * DigitsValue(SubSeq(cs, 1, Len(cs) - 1)) + Digits[cs[Len(cs)]]

AllDigits(cs) == cs # <<>> /\ \A i \in 1..Len(cs) : cs[i] \in DOMAIN Digits

\* StringToNumber: "" is 0, a decimal literal with an optional sign is its
\* value, anything else is NaN.
StringToNumber(cs) ==
    IF cs = <<>> THEN Fin(0)
    ELSE IF AllDigits(cs) THEN Fin(DigitsValue(cs))
    ELSE IF cs[1] = "-" /\ AllDigits(Tail(cs)) THEN Fin(0 - DigitsValue(Tail(cs)))
    ELSE NaN

\* Number.prototype.toString of an integer, as characters.
RECURSIVE NatToChars(_)
NatToChars(n) ==
    LET d == CHOOSE c \in DOMAIN Digits : Digits[c] = n % 10
    IN IF n < 10 THEN <<d>> ELSE NatToChars(n \div 10) \o <<d>>

\* Array.prototype.toString of an array of at most one number: [] is "",
\* [n] is String(n); longer arrays contain a comma.
ArrayToChars(a) ==
    IF a = <<>> THEN <<>>
    ELSE IF Len(a) = 1
         THEN IF a[1] < 0 THEN <<"-">> \o NatToChars(0 - a[1]) ELSE NatToChars(a[1])
         ELSE <<",">>

\* Number(value)
Number(x) ==
    CASE x.t = "undefined" -> NaN
      [] x.t = "null" -> Fin(0)
      [] x.t = "bool" -> IF x.b THEN Fin(1) ELSE Fin(0)
      [] x.t = "num" -> Fin(x.n)
      [] x.t = "str" -> StringToNumber(x.chars)
      [] x.t = "arr" -> StringToNumber(ArrayToChars(x.a))

----------------------------------------------------------------------------
(* The store. *)
InitialBalance == 2000
\* interestRate 0.05 as a fraction
InterestRate == [num |-> 5, den |-> 100]

\* bcrypt.hashSync(password, 10): a salted hash, a string that bcrypt.compare
\* matches against exactly the password it was made from.
HashSync(password) == [t |-> "str", hashOf |-> password]

InitialUsers ==
    [u \in {"customer1"} |->
        [passwordHash |-> HashSync("bank123"),
         account |-> [balance |-> InitialBalance,
                      interestRate |-> InterestRate,
                      lastWithdrawal |-> JNull,
                      currency |-> "USD"]]]

\* `users` is an object literal: a property read finds own keys first and
\* then the members of Object.prototype.
ObjectPrototypeKeys == {"toString", "__proto__"}

\* A faulty lookup: a name without a record is given the first record.
Lookup_Default(store, key) ==
    IF key.t = "str"
    THEN [t |-> "user",
          name |-> IF key.s \in DOMAIN store THEN key.s
                   ELSE CHOOSE name \in DOMAIN store : TRUE]
    ELSE [t |-> "undefined"]

\* users[key]: the user record, an inherited member (truthy, without
\* passwordHash or account), or undefined.
Lookup(store, key) ==
    IF key.t = "str" /\ key.s \in DOMAIN store
        THEN [t |-> "user", name |-> key.s]
    ELSE IF key.t = "str" /\ key.s \in ObjectPrototypeKeys
        THEN [t |-> "inherited"]
    ELSE JUndef

----------------------------------------------------------------------------
(* Responses. *)
Msg(m) == [message |-> m]
Resp(status, body) == [status |-> status, body |-> body]
NoResp == [none |-> TRUE]

InvalidCredentials == Resp(401, Msg("Invalid credentials"))
MissingOrInvalidHeader == Resp(401, Msg("Missing or invalid Authorization header"))
InvalidOrExpiredToken == Resp(401, Msg("Invalid or expired token"))
AccountNotFound == Resp(404, Msg("Account not found"))
NotANumber == Resp(400, Msg("Amount must be a number"))
InvalidAmount == Resp(400, Msg("Invalid withdrawal amount"))
InsufficientFunds == Resp(400, Msg("Insufficient funds"))
InternalServerError == Resp(500, Msg("Internal Server Error"))

----------------------------------------------------------------------------
(* Tokens: jsonwebtoken's sign and verify. *)
JWT_SECRET == "dev-secret"
TokenLifetime == 3600      \* expiresIn: '1h', in seconds

\* The HMAC of a payload under a key: equal exactly for equal key and payload.
Signature(key, payload) == [key |-> key, over |-> payload]

\* A faulty sign: the lifetime is given in minutes where seconds are meant.
JwtSign_OneMinute(username, secret, t) ==
    LET payload == [username |-> username, iat |-> t, exp |-> t + 60]
    IN [payload |-> payload, sig |-> [key |-> secret, over |-> payload]]

\* jwt.sign({ username }, secret, { expiresIn: '1h' }) at time t
JwtSign(username, secret, t) ==
    LET payload == [username |-> username, iat |-> t, exp |-> t + TokenLifetime]
    IN [payload |-> payload, sig |-> Signature(secret, payload)]

\* The pieces of an Authorization header value: words, single spaces, and
\* compact JWT strings.
Word(w) == [w |-> w]
SP == [sp |-> TRUE]
Jwt(tok) == [jwt |-> tok]

NoHeader == [present |-> FALSE, chars |-> <<>>]
HeaderOf(chars) == [present |-> TRUE, chars |-> chars]

\* String.prototype.split(' ')
RECURSIVE Split(_)
Split(str) ==
    IF str = <<>> THEN << <<>> >>
    ELSE IF Head(str) = SP THEN << <<>> >> \o Split(Tail(str))
    ELSE LET rest == Split(Tail(str))
         IN << <<Head(str)>> \o Head(rest) >> \o Tail(rest)

\* A faulty expiry test: a token is still taken at its expiry second.
JwtExpired_Late(payload, t) == t > payload.exp

\* A faulty expiry test: exp is never looked at.
JwtExpired_Never(payload, t) == FALSE

\* The expiry test of jwt.verify at time t
JwtExpired(payload, t) == t >= payload.exp

\* A faulty verify: the payload is decoded and the signature is not checked.
JwtVerify_DecodeOnly(token, secret, t) ==
    IF Len(token) = 1 /\ "jwt" \in DOMAIN token[1] /\ t < token[1].jwt.payload.exp
    THEN [ok |-> TRUE, payload |-> token[1].jwt.payload]
    ELSE [ok |-> FALSE]

\* A faulty verify that treats tokens as sessions: once a login has answered
\* with a newer token, an older one is refused.
JwtVerify_SingleSession(token, secret, t) ==
    IF /\ Len(token) = 1
       /\ "jwt" \in DOMAIN token[1]
       /\ token[1].jwt.sig = [key |-> secret, over |-> token[1].jwt.payload]
       /\ t < token[1].jwt.payload.exp
       /\ ~(/\ "req" \in DOMAIN last
            /\ last.req.kind = "login"
            /\ last.res.status = 200
            /\ last.res.body.token # token[1].jwt)
    THEN [ok |-> TRUE, payload |-> token[1].jwt.payload]
    ELSE [ok |-> FALSE]

\* jwt.verify(token, secret) at time t: throws unless the string is a JWT
\* whose signature is the secret's over its payload and which has not expired.
JwtVerify(token, secret, t) ==
    IF /\ Len(token) = 1
       /\ "jwt" \in DOMAIN token[1]
       /\ token[1].jwt.sig = Signature(secret, token[1].jwt.payload)
       /\ ~JwtExpired(token[1].jwt.payload, t)
    THEN [ok |-> TRUE, payload |-> token[1].jwt.payload]
    ELSE [ok |-> FALSE]

NoUser == [none |-> TRUE]

\* A faulty structural test: extra parts are let through.
HeaderShapeOk_AtLeastTwo(parts) == Len(parts) >= 2 /\ parts[1] = <<Word("Bearer")>>

\* The structural test of the middleware
HeaderShapeOk(parts) == Len(parts) = 2 /\ parts[1] = <<Word("Bearer")>>

\* middleware/auth.js: next is TRUE when the handler is to run with req.user;
\* verified records that jwt.verify was called.
AuthMiddleware(header, t) ==
    LET auth == IF header.present /\ header.chars # <<>> THEN header.chars ELSE <<>>
        parts == Split(auth)
    IN IF ~HeaderShapeOk(parts)
       THEN [next |-> FALSE, res |-> MissingOrInvalidHeader, user |-> NoUser,
             verified |-> FALSE]
       ELSE LET v == JwtVerify(parts[2], JWT_SECRET, t)
            IN IF v.ok
               THEN [next |-> TRUE, res |-> NoResp,
                     user |-> [username |-> v.payload.username], verified |-> TRUE]
               ELSE [next |-> FALSE, res |-> InvalidOrExpiredToken, user |-> NoUser,
                     verified |-> TRUE]

----------------------------------------------------------------------------
(* routes/account.js *)
Falsy(x) ==
    \/ x.t \in {"undefined", "null"}
    \/ x.t = "bool" /\ ~x.b
    \/ x.t = "num" /\ x.n = 0
    \/ x.t = "str" /\ "s" \in DOMAIN x /\ x.s = ""

NoAccount == [found |-> FALSE]

\* A faulty resolution: a username without a record falls back on the one
\* account the store holds.
getAccountForReq_SoleAccount(user, store) ==
    IF "username" \notin DOMAIN user THEN [found |-> FALSE]
    ELSE [found |-> TRUE, name |-> CHOOSE name \in DOMAIN store : TRUE]

\* getAccountForReq(req): the key of the account in the store, or null
getAccountForReq(user, store) ==
    IF "username" \notin DOMAIN user \/ Falsy(user.username) THEN NoAccount
    ELSE LET u == Lookup(store, user.username)
         IN IF u.t = "user" THEN [found |-> TRUE, name |-> u.name] ELSE NoAccount

\* Faulty sufficiency tests: none at all; against the balance the account
\* was opened with instead of the current one; and one that also refuses the
\* whole balance.
ExceedsBalance_Unchecked(amount, balance) == FALSE
ExceedsBalance_Stale(amount, balance) == ~amount.nan /\ amount.v > InitialBalance
ExceedsBalance_OrEqual(amount, balance) == ~amount.nan /\ amount.v >= balance

\* amount > account.balance
ExceedsBalance(amount, balance) == ~amount.nan /\ amount.v > balance

\* amount <= 0
NotPositive(amount) == ~amount.nan /\ amount.v <= 0

\* A faulty debit: the balance moves and lastWithdrawal is left behind.
Debit_BalanceOnly(account, amount) == [account EXCEPT !.balance = @ - amount.v]

\* A faulty debit: lastWithdrawal is set to what is left, not to the amount.
Debit_RecordsBalance(account, amount) ==
    [account EXCEPT !.balance = @ - amount.v,
                    !.lastWithdrawal = JNum(account.balance - amount.v)]

\* A faulty debit: a withdraw that repeats the amount recorded last is taken
\* for a replay of it and is not applied again.
Debit_OncePerAmount(account, amount) ==
    IF account.lastWithdrawal = JNum(amount.v) THEN account
    ELSE [account EXCEPT !.balance = @ - amount.v, !.lastWithdrawal = JNum(amount.v)]

\* A faulty debit: one unit more than the amount leaves the balance.
Debit_WithFee(account, amount) ==
    [account EXCEPT !.balance = @ - amount.v - 1, !.lastWithdrawal = JNum(amount.v)]

\* The two assignments of a successful withdraw
Debit(account, amount) ==
    [account EXCEPT !.balance = @ - amount.v, !.lastWithdrawal = JNum(amount.v)]

\* A faulty withdraw: lastWithdrawal is recorded before the sufficiency test,
\* so a refused withdraw leaves its amount behind.
WithdrawHandler_RecordsFirst(body, user, store) ==
    LET amount == Number(body.amount)
        account == getAccountForReq(user, store)
    IN IF amount.nan THEN [res |-> NotANumber, store |-> store, touched |-> FALSE]
       ELSE IF NotPositive(amount)
           THEN [res |-> InvalidAmount, store |-> store, touched |-> FALSE]
       ELSE IF ~account.found
           THEN [res |-> AccountNotFound, store |-> store, touched |-> TRUE]
       ELSE IF ExceedsBalance(amount, store[account.name].account.balance)
           THEN [res |-> InsufficientFunds,
                 store |-> [store EXCEPT ![account.name].account.lastWithdrawal =
                                             JNum(amount.v)],
                 touched |-> TRUE]
       ELSE LET after == Debit(store[account.name].account, amount)
            IN [res |-> Resp(200, [message |-> "Withdrawal successful",
                                   balance |-> after.balance,
                                   lastWithdrawal |-> after.lastWithdrawal]),
                store |-> [store EXCEPT ![account.name].account = after],
                touched |-> TRUE]

\* POST /withdraw with a parsed body: the response, the store afterwards,
\* and whether the ledger was looked up.
WithdrawHandler(body, user, store) ==
    LET amount == Number(body.amount)
        account == getAccountForReq(user, store)
    IN IF amount.nan THEN [res |-> NotANumber, store |-> store, touched |-> FALSE]
       ELSE IF NotPositive(amount)
           THEN [res |-> InvalidAmount, store |-> store, touched |-> FALSE]
       ELSE IF ~account.found
           THEN [res |-> AccountNotFound, store |-> store, touched |-> TRUE]
       ELSE IF ExceedsBalance(amount, store[account.name].account.balance)
           THEN [res |-> InsufficientFunds, store |-> store, touched |-> TRUE]
       ELSE LET after == Debit(store[account.name].account, amount)
            IN [res |-> Resp(200, [message |-> "Withdrawal successful",
                                   balance |-> after.balance,
                                   lastWithdrawal |-> after.lastWithdrawal]),
                store |-> [store EXCEPT ![account.name].account = after],
                touched |-> TRUE]

\* A faulty read: the whole user record is sent instead of its account.
GetAccountHandler_WholeRecord(user, store) ==
    LET account == getAccountForReq(user, store)
    IN IF ~account.found THEN AccountNotFound
       ELSE Resp(200, store[account.name])

\* GET /
GetAccountHandler(user, store) ==
    LET account == getAccountForReq(user, store)
    IN IF ~account.found THEN AccountNotFound
       ELSE Resp(200, store[account.name].account)

\* A product or quotient of the rate, kept as a fraction
Frac(num, den) == [num |-> num, den |-> den]

\* A faulty projection: the interest is computed once, from the balance the
\* account was opened with.
InterestHandler_OpeningBalance(user, store) ==
    LET account == getAccountForReq(user, store)
    IN IF ~account.found THEN AccountNotFound
       ELSE LET a == store[account.name].account
                yearlyInterest == Frac(InitialBalance * a.interestRate.num, a.interestRate.den)
                monthlyInterest == Frac(yearlyInterest.num, yearlyInterest.den * 12)
            IN Resp(200, [balance |-> a.balance,
                          interestRate |-> a.interestRate,
                          yearlyInterest |-> yearlyInterest,
                          monthlyInterest |-> monthlyInterest,
                          currency |-> a.currency])

\* GET /interest
InterestHandler(user, store) ==
    LET account == getAccountForReq(user, store)
    IN IF ~account.found THEN AccountNotFound
       ELSE LET a == store[account.name].account
                yearlyInterest == Frac(a.balance * a.interestRate.num, a.interestRate.den)
                monthlyInterest == Frac(yearlyInterest.num, yearlyInterest.den * 12)
            IN Resp(200, [balance |-> a.balance,
                          interestRate |-> a.interestRate,
                          yearlyInterest |-> yearlyInterest,
                          monthlyInterest |-> monthlyInterest,
                          currency |-> a.currency])

----------------------------------------------------------------------------
(* routes/auth.js *)

\* bcrypt.compare(password, hash): rejects unless both are strings
CompareThrows(password, hash) == password.t # "str" \/ hash.t # "str"
Compare(password, hash) == hash.hashOf = password.s

\* user.passwordHash: undefined on an inherited member
PasswordHashOf(store, user) ==
    IF user.t = "user" THEN store[user.name].passwordHash ELSE JUndef

----------------------------------------------------------------------------
(* Requests and exchanges.  A handler of routes/account.js runs from the    *)
(* middleware to its response in one turn of the event loop, so a request   *)
(* is the input of one action; the login handler is two, split at its       *)
(* await.  `last` keeps the exchange answered most recently, with history   *)
(* for stating properties: when it was handled, the store the handler saw   *)
(* and left, and what the middleware and the handler did (for a login,      *)
(* whether bcrypt.compare was called).                                      *)
Protected == {"getAccount", "withdraw", "projectInterest"}

NoBody == [none |-> TRUE]
LoginBody(username, password) == [username |-> username, password |-> password]
AmountBody(amount) == [amount |-> amount]

Request(kind, header, body) == [kind |-> kind, header |-> header, body |-> body]

Nothing == [none |-> TRUE]
NoResponse == [none |-> TRUE]      \* the connection ends without a response

History(store) ==
    [at |-> now, pre |-> users, post |-> store,
     verified |-> FALSE, ran |-> FALSE, touched |-> FALSE, user |-> NoUser,
     compared |-> FALSE]

Exchange(r, res, h) == [req |-> r, res |-> res, h |-> h]

\* router.use(auth) and then the route.  outcome is what the route does when
\* the middleware calls next().
Route(r, outcome) ==
    LET gate == AuthMiddleware(r.header, now)
        h0 == [History(users) EXCEPT !.verified = gate.verified, !.user = gate.user]
    IN IF ~gate.next
       THEN /\ last' = Exchange(r, gate.res, h0)
            /\ UNCHANGED users
       ELSE /\ last' = Exchange(r, outcome.res,
                                [h0 EXCEPT !.ran = TRUE, !.post = outcome.store,
                                           !.touched = outcome.touched])
            /\ users' = outcome.store

\* GET /api/account
GetAccount(r) ==
    /\ alive
    /\ r.kind = "getAccount"
    /\ LET gate == AuthMiddleware(r.header, now)
       IN Route(r, [res |-> GetAccountHandler(gate.user, users), store |-> users,
                    touched |-> TRUE])
    /\ UNCHANGED <<now, ticks, comparing, issued, withdrawals, withdrawn, alive>>

\* GET /api/account/interest
ProjectInterest(r) ==
    /\ alive
    /\ r.kind = "projectInterest"
    /\ LET gate == AuthMiddleware(r.header, now)
       IN Route(r, [res |-> InterestHandler(gate.user, users), store |-> users,
                    touched |-> TRUE])
    /\ UNCHANGED <<now, ticks, comparing, issued, withdrawals, withdrawn, alive>>

\* The Express major version is not pinned in these sources; where the two
\* differ, either behaviour is one the build can have.
ExpressMajors == {4, 5}

\* req.body.amount when no JSON body was sent: body-parser 1 (Express 4)
\* leaves req.body = {}, Express 5 leaves it undefined and the read throws,
\* which the router passes to the error handler.
BodyReadThrows(body, expressMajor) == body = NoBody /\ expressMajor = 5
BodyOf(body) == IF body = NoBody THEN AmountBody(JUndef) ELSE body

\* POST /api/account/withdraw
Withdraw(r) ==
    /\ alive
    /\ r.kind = "withdraw"
    /\ withdrawals < MaxWithdrawals
    /\ LET gate == AuthMiddleware(r.header, now)
           handled == WithdrawHandler(BodyOf(r.body), gate.user, users)
           thrown == [res |-> InternalServerError, store |-> users, touched |-> FALSE]
       IN IF r.body = NoBody
          THEN \E expressMajor \in ExpressMajors :
                   Route(r, IF BodyReadThrows(r.body, expressMajor) THEN thrown
                            ELSE handled)
          ELSE Route(r, handled)
    /\ withdrawals' = IF users' # users THEN withdrawals + 1 ELSE withdrawals
    /\ withdrawn' = IF last'.h.ran /\ last'.res.status = 200
                    THEN withdrawn + Number(BodyOf(r.body).amount).v
                    ELSE withdrawn
    /\ UNCHANGED <<now, ticks, comparing, issued, alive>>

\* POST /auth/login up to the await: lines 9-13
LoginStart(r) ==
    /\ alive
    /\ r.kind = "login"
    /\ LET user == Lookup(users, r.body.username)
       IN IF user.t = "undefined"
          THEN /\ last' = Exchange(r, InvalidCredentials, History(users))
               /\ UNCHANGED comparing
          ELSE /\ Cardinality(comparing) < MaxSuspended
               /\ r \notin comparing
               /\ comparing' = comparing \cup {r}
               /\ UNCHANGED last
    /\ UNCHANGED <<users, now, ticks, issued, withdrawals, withdrawn, alive>>

\* What a client does with a token it is answered with
Keep(tok, username) ==
    IF Cardinality(issued) < MaxIssued
    THEN issued \cup {[tok |-> tok, user |-> username]}
    ELSE issued

\* POST /auth/login after the await: lines 13-18.  A rejected compare is an
\* exception in an async handler: Express 5 passes it to the error handler,
\* under Express 4 it is an unhandled rejection, which ends a Node 18 process.
LoginFinish(r) ==
    /\ alive
    /\ r \in comparing
    /\ comparing' = comparing \ {r}
    /\ LET user == Lookup(users, r.body.username)
           hash == PasswordHashOf(users, user)
           h == [History(users) EXCEPT !.ran = TRUE, !.compared = TRUE]
       IN IF CompareThrows(r.body.password, hash)
          THEN \E expressMajor \in ExpressMajors :
               IF expressMajor = 5
               THEN /\ last' = Exchange(r, InternalServerError, h)
                    /\ UNCHANGED <<issued, alive>>
               ELSE /\ last' = Exchange(r, NoResponse, h)
                    /\ alive' = FALSE
                    /\ UNCHANGED issued
          ELSE IF ~Compare(r.body.password, hash)
          THEN /\ last' = Exchange(r, InvalidCredentials, h)
               /\ UNCHANGED <<issued, alive>>
          ELSE LET token == JwtSign(r.body.username, JWT_SECRET, now)
               IN /\ last' = Exchange(r, Resp(200, [token |-> token]), h)
                  /\ issued' = Keep(token, r.body.username.s)
                  /\ UNCHANGED alive
    /\ UNCHANGED <<users, now, ticks, withdrawals, withdrawn>>

\* Time passes.
Tick(d) ==
    /\ alive
    /\ ticks < MaxTicks
    /\ now' = now + d
    /\ ticks' = ticks + 1
    /\ UNCHANGED <<users, comparing, last, issued, withdrawals, withdrawn, alive>>

Init ==
    /\ users = InitialUsers
    /\ now = 0
    /\ ticks = 0
    /\ comparing = {}
    /\ last = Nothing
    /\ issued = {}
    /\ withdrawals = 0
    /\ withdrawn = 0
    /\ alive = TRUE

----------------------------------------------------------------------------
(* What clients send. *)
IssuedTokens == {i.tok : i \in issued}

\* A token signed with a key that is not the server's
ForgedToken == JwtSign(JStr("customer1"), "guess", 0)

\* An issued token whose payload was edited after signing
ExtendExpiry(tok) == [tok EXCEPT !.payload.exp = @ + TokenLifetime]
Rename(tok) == [tok EXCEPT !.payload.username = JStr("ghost")]

Bearer(tok) == HeaderOf(<<Word("Bearer"), SP, Jwt(tok)>>)

\* Tokens under the server's secret whose username resolves to no account:
\* a name without a record, a member of Object.prototype, and a payload
\* without a username.  The secret is process.env.JWT_SECRET or the default
\* in the source, so login is not the only signer.
OrphanTokens ==
    {JwtSign(u, JWT_SECRET, 0) : u \in {JStr("ghost"), JStr("toString"), JUndef}}

WellShapedHeaders ==
    {Bearer(t) : t \in IssuedTokens \cup {ForgedToken}}
    \cup {Bearer(ExtendExpiry(t)) : t \in IssuedTokens}
    \cup {Bearer(Rename(t)) : t \in IssuedTokens}
    \cup {HeaderOf(<<Word("Bearer"), SP>>),
          HeaderOf(<<Word("Bearer"), SP, Word("garbage")>>)}

IllShapedHeaders ==
    {NoHeader, HeaderOf(<<Word("Bearer")>>)}
    \cup {HeaderOf(<<Word("bearer"), SP, Jwt(t)>>) : t \in IssuedTokens}
    \cup {HeaderOf(<<Word("Basic"), SP, Jwt(t)>>) : t \in IssuedTokens}
    \cup {HeaderOf(<<Word("Bearer"), SP, SP, Jwt(t)>>) : t \in IssuedTokens}
    \cup {HeaderOf(<<Word("Bearer"), SP, Jwt(t), SP, Word("x")>>) : t \in IssuedTokens}

Headers == WellShapedHeaders \cup IllShapedHeaders

Usernames == {JStr("customer1"), JStr("ghost"), JStr("toString"), JUndef}
Passwords == {JStr("bank123"), JStr("wrong"), JUndef, JNum(123)}

Amounts ==
    {JNum(n) : n \in {-5, 0, 1000, 1001, 2000, 2500}}
    \cup {JUndef, JNull, JBool(TRUE), JBool(FALSE),
          JText(<<"a", "b", "c">>), JText(<<"1", "0", "0", "0">>),
          JArr(<<1000>>), JArr(<<1000, 1>>)}

AmountBodies == {AmountBody(a) : a \in Amounts} \cup {NoBody}

Logins(usernames, passwords) ==
    {Request("login", NoHeader, LoginBody(u, p)) : u \in usernames, p \in passwords}

Calls(headers, amountBodies) ==
    {Request(k, h, NoBody) : k \in {"getAccount", "projectInterest"}, h \in headers}
    \cup {Request("withdraw", h, b) : h \in headers, b \in amountBodies}

\* The ledger's inputs: every amount, with a good token and with none.
LedgerRequests ==
    Logins({JStr("customer1")}, {JStr("bank123"), JStr("wrong")})
    \cup Calls({Bearer(t) : t \in IssuedTokens}, AmountBodies)
    \cup Calls({NoHeader}, {AmountBody(JNum(1000)), AmountBody(JUndef)})

\* The gate's inputs: every header, on every protected route.
GateRequests ==
    Logins({JStr("customer1")}, {JStr("bank123")})
    \cup Calls(Headers, {AmountBody(JNum(1000))})

\* The verifier's inputs: every username with every password.
VerifierRequests ==
    Logins(Usernames, Passwords)
    \cup Calls({Bearer(t) : t \in IssuedTokens}, {AmountBody(JNum(1000))})

\* The resolver's inputs: tokens with and without an account, on every
\* protected route.
ResolveBodies ==
    {AmountBody(a) : a \in {JNum(-5), JNum(0), JNum(1000), JNum(2500), JUndef,
                            JText(<<"a", "b", "c">>)}}
    \cup {NoBody}

ResolveRequests ==
    Logins({JStr("customer1")}, {JStr("bank123")})
    \cup Calls({Bearer(t) : t \in IssuedTokens \cup OrphanTokens} \cup {NoHeader},
             ResolveBodies)

----------------------------------------------------------------------------
Next ==
    \/ \E r \in LedgerRequests : LoginStart(r)
    \/ \E r \in comparing : LoginFinish(r)
    \/ \E r \in LedgerRequests : GetAccount(r)
    \/ \E r \in LedgerRequests : Withdraw(r)
    \/ \E r \in LedgerRequests : ProjectInterest(r)
    \/ \E d \in {3599} : Tick(d)

Spec == Init /\ [][Next]_vars

NextGate ==
    \/ \E r \in GateRequests : LoginStart(r)
    \/ \E r \in comparing : LoginFinish(r)
    \/ \E r \in GateRequests : GetAccount(r)
    \/ \E r \in GateRequests : Withdraw(r)
    \/ \E r \in GateRequests : ProjectInterest(r)
    \/ \E d \in TickSteps : Tick(d)

SpecGate == Init /\ [][NextGate]_vars

NextVerifier ==
    \/ \E r \in VerifierRequests : LoginStart(r)
    \/ \E r \in comparing : LoginFinish(r)
    \/ \E r \in VerifierRequests : GetAccount(r)
    \/ \E r \in VerifierRequests : Withdraw(r)
    \/ \E r \in VerifierRequests : ProjectInterest(r)
    \/ \E d \in {3599} : Tick(d)

SpecVerifier == Init /\ [][NextVerifier]_vars

NextResolve ==
    \/ \E r \in ResolveRequests : LoginStart(r)
    \/ \E r \in comparing : LoginFinish(r)
    \/ \E r \in ResolveRequests : GetAccount(r)
    \/ \E r \in ResolveRequests : Withdraw(r)
    \/ \E r \in ResolveRequests : ProjectInterest(r)
    \/ \E d \in {3599} : Tick(d)

SpecResolve == Init /\ [][NextResolve]_vars

----------------------------------------------------------------------------
(* Properties.  They are stated over the store and over `last`, the         *)
(* exchange answered most recently; in an action formula `last` is the      *)
(* exchange before the step and last' the one the step answered.            *)

Customer == "customer1"
Balance(store) == store[Customer].account.balance
LastWithdrawal(store) == store[Customer].account.lastWithdrawal

\* x is an answered call of a protected route
IsCall(x) == x # Nothing /\ x.req.kind \in Protected
IsLogin(x) == x # Nothing /\ x.req.kind = "login"

\* x is a withdraw whose body carries a JSON number
IsWithdrawOfNumber(x) ==
    /\ x # Nothing
    /\ x.req.kind = "withdraw"
    /\ x.req.body # NoBody
    /\ x.req.body.amount.t = "num"
Amt(x) == x.req.body.amount.n

\* x passed the gate as the holder of the stored account
ByCustomer(x) == x.h.ran /\ x.h.user = [username |-> JStr(Customer)]

Succeeded(x) == x.res.status = 200

\* The header carries, well-shaped, a token that login issued and that has
\* not expired at time t.
GoodHeader(header, t) ==
    \E i \in issued : header = Bearer(i.tok) /\ t < i.tok.payload.exp

----------------------------------------------------------------------------
\* C1: in every reachable state every account's balance is >= 0.
C1_BalanceNeverNegative ==
    \A u \in DOMAIN users : users[u].account.balance >= 0

\* The whole balance has been withdrawn and a further withdraw was refused.
C1_Witness ==
    /\ Balance(users) = 0
    /\ IsWithdrawOfNumber(last)
    /\ last.res = InsufficientFunds

\* C2: two withdrawals a1 and a2 by the same holder, handled one after the
\* other in either order from a balance B = a1 + a2 - 1 with a1 <= B and
\* a2 <= B, end with exactly one success and one InsufficientFunds.
Racing(x, y) ==
    /\ IsWithdrawOfNumber(x) /\ ByCustomer(x)
    /\ IsWithdrawOfNumber(y) /\ ByCustomer(y)
    /\ y.h.pre = x.h.post
    /\ Balance(x.h.pre) = Amt(x) + Amt(y) - 1
    /\ Amt(x) <= Balance(x.h.pre)
    /\ Amt(y) <= Balance(x.h.pre)

OneSuccessOneInsufficient(x, y) ==
    \/ Succeeded(x) /\ y.res = InsufficientFunds
    \/ x.res = InsufficientFunds /\ Succeeded(y)

C2_RaceHasOneWinner ==
    [][(last' # last /\ Racing(last, last'))
          => /\ OneSuccessOneInsufficient(last, last')
             /\ Balance(users') >= 0]_vars

\* 1001 was refused against the 1000 that a withdraw of 1000 from 2000 left.
C2_Witness ==
    /\ IsWithdrawOfNumber(last) /\ ByCustomer(last)
    /\ Amt(last) = 1001
    /\ last.res = InsufficientFunds
    /\ Balance(last.h.pre) = 1000
    /\ LastWithdrawal(users) = JNum(1000)
    /\ withdrawals = 1

\* C3 as stated: an amount above the balance fails with InsufficientFunds
\* and changes nothing; an amount equal to the balance succeeds and leaves 0.
C3_AsStated ==
    (IsWithdrawOfNumber(last) /\ ByCustomer(last)) =>
        /\ Amt(last) > Balance(last.h.pre) =>
               last.res = InsufficientFunds /\ last.h.post = last.h.pre
        /\ Amt(last) = Balance(last.h.pre) =>
               Succeeded(last) /\ Balance(last.h.post) = 0

\* C3 amended: an amount above the balance fails with InsufficientFunds and
\* changes nothing; a strictly positive amount equal to the balance succeeds
\* and leaves 0.
C3_ExceedingFailsEqualSucceeds ==
    (IsWithdrawOfNumber(last) /\ ByCustomer(last)) =>
        /\ Amt(last) > Balance(last.h.pre) =>
               /\ last.res = InsufficientFunds
               /\ last.h.post = last.h.pre
               /\ users = last.h.pre
        /\ (Amt(last) = Balance(last.h.pre) /\ Amt(last) > 0) =>
               /\ Succeeded(last)
               /\ Balance(last.h.post) = 0
               /\ Balance(users) = 0

\* The whole balance was withdrawn in one call.
C3_Witness ==
    /\ IsWithdrawOfNumber(last) /\ ByCustomer(last)
    /\ Amt(last) = Balance(last.h.pre)
    /\ Amt(last) > 0
    /\ Succeeded(last)

\* C4: a withdraw whose amount is <= 0 or is not numeric fails and leaves
\* balance and lastWithdrawal unchanged.
NotNumeric(v) ==
    \/ v.t \in {"undefined", "null", "bool", "arr"}
    \/ v.t = "str" /\ StringToNumber(v.chars).nan

C4_BadAmountAlwaysFails ==
    (last # Nothing /\ last.req.kind = "withdraw" /\ last.h.ran) =>
        LET v == BodyOf(last.req.body).amount
        IN (NotNumeric(v) \/ (v.t = "num" /\ v.n <= 0)) =>
               ~Succeeded(last) /\ last.h.post = last.h.pre

\* C5: a successful withdraw of a from b is one transition to balance b - a
\* and lastWithdrawal a, and a read is answered from the store of one state.
C5_DebitIsOneTransition ==
    [][/\ users' # users =>
            /\ IsCall(last') /\ last'.req.kind = "withdraw" /\ Succeeded(last')
            /\ Balance(users') < Balance(users)
            /\ LastWithdrawal(users') = JNum(Balance(users) - Balance(users'))
            /\ last'.res.body.balance = Balance(users')
            /\ last'.res.body.lastWithdrawal = LastWithdrawal(users')
       /\ (last' # last /\ IsCall(last') /\ last'.req.kind = "getAccount"
              /\ Succeeded(last')) =>
            /\ users' = users
            /\ last'.res.body = users[Customer].account
       /\ (last' # last /\ IsCall(last') /\ last'.req.kind = "projectInterest"
              /\ Succeeded(last')) =>
            /\ users' = users
            /\ last'.res.body.balance = Balance(users)]_vars

\* A read after a withdraw of 1000 shows the new balance and the amount.
C5_Witness ==
    /\ IsCall(last) /\ last.req.kind = "getAccount" /\ Succeeded(last)
    /\ last.res.body.balance = 1000
    /\ last.res.body.lastWithdrawal = JNum(1000)

----------------------------------------------------------------------------
\* C6: a token that login issued for u is accepted with username u at every
\* time before its expiry and is rejected with InvalidOrExpiredToken, the
\* handler not run, at every time from its expiry on.
ProbeTimes(tok) ==
    {tok.payload.iat, tok.payload.exp - 1, tok.payload.exp, tok.payload.exp + 1, now}

C6_ValidUntilExpiry ==
    \A i \in issued :
        /\ \A t \in ProbeTimes(i.tok) :
              LET gate == AuthMiddleware(Bearer(i.tok), t)
              IN IF t < i.tok.payload.exp
                 THEN gate.next /\ gate.user = [username |-> JStr(i.user)]
                 ELSE ~gate.next /\ gate.res = InvalidOrExpiredToken
        /\ (IsCall(last) /\ last.req.header = Bearer(i.tok)) =>
              IF last.h.at < i.tok.payload.exp
              THEN last.h.ran /\ last.h.user = [username |-> JStr(i.user)]
              ELSE /\ last.res = InvalidOrExpiredToken
                   /\ ~last.h.ran /\ ~last.h.touched
                   /\ last.h.post = last.h.pre

\* A call made in the very second the token expires was refused.
C6_Witness ==
    \E i \in issued :
        /\ IsCall(last) /\ last.req.header = Bearer(i.tok)
        /\ last.h.at = i.tok.payload.exp
        /\ last.res = InvalidOrExpiredToken
        /\ i.user = Customer

\* C7: on every protected route a request whose token does not validate is
\* answered 401 and the ledger is neither read nor written; the handler runs
\* only for a request whose token validated.
C7_GateBeforeLedger ==
    IsCall(last) =>
        IF GoodHeader(last.req.header, last.h.at)
        THEN last.h.ran /\ last.h.verified
        ELSE /\ last.res.status = 401
             /\ DOMAIN last.res.body = {"message"}
             /\ ~last.h.ran /\ ~last.h.touched
             /\ last.h.post = last.h.pre
             /\ users = last.h.pre

\* A withdraw under a token signed with another key was turned away.
C7_Witness ==
    /\ IsCall(last) /\ last.req.kind = "withdraw"
    /\ last.req.header = Bearer(ForgedToken)
    /\ last.res.status = 401
    /\ Balance(users) = InitialBalance

\* C8: a header that is missing, whose scheme is not the literal Bearer or
\* that is not exactly two space-separated parts is rejected with
\* MissingOrInvalidHeader and no signature is verified; a header of the
\* right shape whose token does not verify is rejected with
\* InvalidOrExpiredToken.
Spaces(chars) == Cardinality({k \in 1..Len(chars) : chars[k] = SP})

RightShape(header) ==
    /\ header.present
    /\ Len(header.chars) >= 2
    /\ header.chars[1] = Word("Bearer")
    /\ header.chars[2] = SP
    /\ Spaces(header.chars) = 1

C8_HeaderThenToken ==
    IsCall(last) =>
        IF ~RightShape(last.req.header)
        THEN last.res = MissingOrInvalidHeader /\ ~last.h.verified /\ ~last.h.ran
        ELSE IF ~GoodHeader(last.req.header, last.h.at)
        THEN last.res = InvalidOrExpiredToken /\ last.h.verified /\ ~last.h.ran
        ELSE last.h.ran

\* A live token after two spaces was refused for the header's shape.
C8_Witness ==
    \E i \in issued :
        /\ IsCall(last)
        /\ last.req.header = HeaderOf(<<Word("Bearer"), SP, SP, Jwt(i.tok)>>)
        /\ last.h.at < i.tok.payload.exp
        /\ last.res = MissingOrInvalidHeader

\* C9: login answers 200 with a token exactly when the username and password
\* (two strings) match a stored record, and 401 without a token otherwise.
Matches(u, p) ==
    /\ u.t = "str" /\ u.s \in DOMAIN users
    /\ p.t = "str" /\ users[u.s].passwordHash = HashSync(p.s)

C9_LoginOkIffMatch ==
    (/\ IsLogin(last)
     /\ last.req.body.username.t = "str"
     /\ last.req.body.password.t = "str") =>
        IF Matches(last.req.body.username, last.req.body.password)
        THEN Succeeded(last) /\ DOMAIN last.res.body = {"token"}
        ELSE last.res = InvalidCredentials

\* C10: the response to a login with an unknown username is the response
\* to a login with a known username and a wrong password, whatever is sent
\* as the password.
UnknownUsername(x) ==
    IsLogin(x) /\ Lookup(users, x.req.body.username).t = "undefined"

KnownUsernameWrongPassword(x) ==
    /\ IsLogin(x)
    /\ x.req.body.username.t = "str" /\ x.req.body.username.s \in DOMAIN users
    /\ ~Matches(x.req.body.username, x.req.body.password)

C10_SameFailureResponse ==
    [][(/\ UnknownUsername(last)
        /\ last' # last
        /\ KnownUsernameWrongPassword(last')
        /\ last'.req.body.password = last.req.body.password)
          => last'.res = last.res]_vars

----------------------------------------------------------------------------
\* C11: a login refused for an unknown username has done the work of a login
\* refused for a wrong password: bcrypt.compare was called on both paths.
C11_SameWorkOnBothPaths ==
    (IsLogin(last) /\ last.res = InvalidCredentials) => last.h.compared

\* C12: every request is answered with a structured response and the
\* process survives it; a fault raised in a handler (a rejected compare, a
\* withdraw without a body) is answered with the generic 500.
C12_NoFaultEscapes ==
    /\ alive
    /\ last # Nothing => last.res # NoResponse
    /\ (IsLogin(last) /\ CompareThrows(last.req.body.password,
                            PasswordHashOf(users, Lookup(users, last.req.body.username)))
           /\ last.h.compared) => last.res = InternalServerError

\* C13: a withdraw is answered with the first check that fails, in the order
\* token (401), amount numeric (NotANumber), amount strictly positive
\* (InvalidAmount), account resolves (NotFound), amount <= balance
\* (InsufficientFunds), and a withdraw that fails leaves the store unchanged.
NumericValue(v) == IF v.t = "num" THEN v.n ELSE StringToNumber(v.chars).v

Resolves(user, store) ==
    /\ "username" \in DOMAIN user
    /\ user.username.t = "str"
    /\ user.username.s \in DOMAIN store

FirstFailingCheck(x) ==
    LET v == x.req.body.amount
    IN IF ~GoodHeader(x.req.header, x.h.at) THEN {MissingOrInvalidHeader, InvalidOrExpiredToken}
       ELSE IF NotNumeric(v) THEN {NotANumber}
       ELSE IF NumericValue(v) <= 0 THEN {InvalidAmount}
       ELSE IF ~Resolves(x.h.user, x.h.pre) THEN {AccountNotFound}
       ELSE IF NumericValue(v) > Balance(x.h.pre) THEN {InsufficientFunds}
       ELSE {}

C13_FirstFailingCheckIsReported ==
    (IsCall(last) /\ last.req.kind = "withdraw" /\ last.req.body # NoBody) =>
        IF FirstFailingCheck(last) = {}
        THEN Succeeded(last)
        ELSE /\ last.res \in FirstFailingCheck(last)
             /\ last.h.post = last.h.pre
             /\ users = last.h.pre

\* C14 as stated: a request under a correctly signed, unexpired token whose
\* username has no account passes the gate and is answered NotFound (404),
\* never 401, on all three routes, and no account changes.
OrphanCall(x) ==
    /\ IsCall(x)
    /\ \E t \in OrphanTokens : x.req.header = Bearer(t) /\ x.h.at < t.payload.exp

C14_AsStated ==
    OrphanCall(last) =>
        /\ last.h.ran
        /\ last.res = AccountNotFound
        /\ users = last.h.pre

\* C14 amended: such a request passes the gate, is never answered 401 and
\* changes no account; getAccount and projectInterest answer NotFound (404),
\* and so does withdraw when its amount is a strictly positive number.
PositiveNumber(x) ==
    x.req.body # NoBody /\ x.req.body.amount.t = "num" /\ x.req.body.amount.n > 0

C14_OrphanTokenIsNotFound ==
    OrphanCall(last) =>
        /\ last.h.ran /\ last.h.verified
        /\ last.res.status # 401
        /\ last.h.post = last.h.pre
        /\ users = last.h.pre
        /\ (last.req.kind \in {"getAccount", "projectInterest"}
               \/ (last.req.kind = "withdraw" /\ PositiveNumber(last)))
              => last.res = AccountNotFound

\* A withdraw of 1000 under a token for a username without a record was
\* answered 404.
C14_Witness ==
    /\ OrphanCall(last)
    /\ last.req.kind = "withdraw" /\ PositiveNumber(last)
    /\ last.h.user = [username |-> JStr("ghost")]
    /\ last.res = AccountNotFound
    /\ Balance(users) = InitialBalance

\* C15: only a successful withdraw changes the ledger: a login, a getAccount,
\* a projectInterest and every rejected request leave balance and
\* lastWithdrawal as they were, and no step changes interestRate, currency,
\* the usernames or a passwordHash.
SuccessfulWithdraw(x) ==
    IsCall(x) /\ x.req.kind = "withdraw" /\ x.h.ran /\ Succeeded(x)

C15_OnlyWithdrawWrites ==
    [][/\ users' # users => (last' # last /\ SuccessfulWithdraw(last'))
       /\ (last' # last /\ ~SuccessfulWithdraw(last')) =>
              users' = users /\ last'.h.post = last'.h.pre
       /\ DOMAIN users' = DOMAIN users
       /\ \A u \in DOMAIN users :
              /\ users'[u].passwordHash = users[u].passwordHash
              /\ users'[u].account.interestRate = users[u].account.interestRate
              /\ users'[u].account.currency = users[u].account.currency]_vars

\* After a withdraw of 1000, a withdraw of 2500 was refused and the account
\* still shows the 1000.
C15_Witness ==
    /\ IsWithdrawOfNumber(last) /\ ByCustomer(last)
    /\ last.res = InsufficientFunds
    /\ Amt(last) = 2500
    /\ users = last.h.pre
    /\ Balance(users) = 1000
    /\ LastWithdrawal(users) = JNum(1000)

\* C16: projectInterest answers with the stored balance and interestRate,
\* yearlyInterest = balance * interestRate and monthlyInterest =
\* yearlyInterest / 12, from the balance at the time of the call: after
\* withdrawals totalling W it reports InitialBalance - W, and a call that
\* follows another with no successful withdraw between them is answered
\* the same.
Projection(x) ==
    IsCall(x) /\ x.req.kind = "projectInterest" /\ ByCustomer(x) /\ Succeeded(x)

\* the fractions p and q are the same rational
SameRatio(p, q) == p.num * q.den = q.num * p.den

C16_InterestOfCurrentBalance ==
    [][Projection(last') =>
          LET b == last'.res.body
          IN /\ DOMAIN b = {"balance", "interestRate", "yearlyInterest",
                            "monthlyInterest", "currency"}
             /\ b.balance = Balance(users')
             /\ b.balance = InitialBalance - withdrawn'
             /\ b.interestRate = users'[Customer].account.interestRate
             /\ SameRatio(b.yearlyInterest,
                          Frac(b.balance * b.interestRate.num, b.interestRate.den))
             /\ SameRatio(b.monthlyInterest,
                          Frac(b.yearlyInterest.num, 12 * b.yearlyInterest.den))
             /\ users' = users
             /\ Projection(last) => last'.res = last.res]_vars

\* A projection an hour after another, 1000 withdrawn before both: both show
\* balance 1000 and yearly interest 50.
C16_Witness ==
    /\ Projection(last)
    /\ withdrawn = 1000
    /\ last.res.body.balance = 1000
    /\ SameRatio(last.res.body.yearlyInterest, Frac(50, 1))
    /\ last.h.at > 0

\* C17: lastWithdrawal is null exactly when no withdraw has succeeded on the
\* account; a successful withdraw sets it to its amount, and nothing else,
\* a failed withdraw included, alters it.
NoneYet(store, n) == (LastWithdrawal(store) = JNull) <=> (n = 0)

C17_LastWithdrawalIsMostRecent ==
    [][/\ NoneYet(users, withdrawals) /\ NoneYet(users', withdrawals')
       /\ IF last' # last /\ SuccessfulWithdraw(last')
          THEN /\ withdrawals' = withdrawals + 1
               /\ LastWithdrawal(users') = JNum(withdrawn' - withdrawn)
               /\ IsWithdrawOfNumber(last') =>
                      LastWithdrawal(users') = JNum(Amt(last'))
          ELSE /\ withdrawals' = withdrawals
               /\ LastWithdrawal(users') = LastWithdrawal(users)]_vars

\* A withdraw of -5 was refused after one of 1000 had succeeded, and
\* lastWithdrawal is still 1000.
C17_Witness ==
    /\ IsWithdrawOfNumber(last) /\ ByCustomer(last)
    /\ Amt(last) = -5
    /\ last.res = InvalidAmount
    /\ withdrawals = 1
    /\ LastWithdrawal(users) = JNum(1000)

\* C18: withdraw is not idempotent: an authenticated withdraw of a > 0 with
\* a <= balance succeeds and takes a, whatever was withdrawn before; the
\* same call made again right after a success takes a again, so that the
\* two together take 2 * a.
Affordable(x, store) ==
    /\ IsWithdrawOfNumber(x) /\ ByCustomer(x)
    /\ Amt(x) > 0
    /\ Amt(x) <= Balance(store)

C18_RepeatWithdrawsAgain ==
    [][(last' # last /\ Affordable(last', users)) =>
          /\ Succeeded(last')
          /\ Balance(users') = Balance(users) - Amt(last')
          /\ withdrawn' = withdrawn + Amt(last')
          /\ (IsWithdrawOfNumber(last) /\ Succeeded(last)
                 /\ last'.req = last.req) =>
                Balance(users') = Balance(last.h.pre) - 2 * Amt(last')]_vars

\* The same withdraw of 1000 succeeded twice in a row and emptied the account.
C18_Witness ==
    /\ IsWithdrawOfNumber(last) /\ ByCustomer(last) /\ Succeeded(last)
    /\ Amt(last) = 1000
    /\ Balance(last.h.pre) = 1000
    /\ LastWithdrawal(last.h.pre) = JNum(1000)
    /\ withdrawals = 2
    /\ withdrawn = 2000
    /\ Balance(users) = 0

\* C19: a token is judged by its signature and expiry alone: in every state,
\* whatever logins, withdrawals and other requests came before, the gate
\* accepts each issued token that has not expired, a call made with it runs
\* as its user, and a later login of the same user does not invalidate it.
Accepts(i, t) ==
    LET gate == AuthMiddleware(Bearer(i.tok), t)
    IN gate.next /\ gate.user = [username |-> JStr(i.user)]

C19_NoSessionState ==
    [][\A i \in issued' :
          /\ now' < i.tok.payload.exp => Accepts(i, now')
          /\ (/\ last' # last
              /\ IsCall(last')
              /\ last'.req.header = Bearer(i.tok)
              /\ last'.h.at < i.tok.payload.exp) =>
                 /\ last'.h.ran
                 /\ last'.h.user = [username |-> JStr(i.user)]]_vars

\* After a withdraw, the user has logged in again and holds a newer token;
\* the earlier token has not expired and the gate still accepts it.
C19_Witness ==
    \E i \in issued :
        /\ IsLogin(last) /\ Succeeded(last)
        /\ last.req.body.username = JStr(i.user)
        /\ last.res.body.token.payload.iat > i.tok.payload.iat
        /\ withdrawals >= 1
        /\ now < i.tok.payload.exp
        /\ Accepts(i, now)

\* C20: no response of login, getAccount, withdraw or projectInterest, and
\* no error response, carries a passwordHash; getAccount answers with the
\* account fields balance, interestRate, lastWithdrawal and currency only.
AccountFields == {"balance", "interestRate", "lastWithdrawal", "currency"}

ResponseShapes ==
    {{"message"}, {"token"}, AccountFields,
     {"message", "balance", "lastWithdrawal"},
     {"balance", "interestRate", "yearlyInterest", "monthlyInterest", "currency"}}

IsHash(v) == "hashOf" \in DOMAIN v

C20_NoHashInResponses ==
    (last # Nothing /\ last.res # NoResponse) =>
        LET b == last.res.body
        IN /\ DOMAIN b \in ResponseShapes
           /\ "token" \in DOMAIN b =>
                 /\ DOMAIN b.token = {"payload", "sig"}
                 /\ DOMAIN b.token.payload = {"username", "iat", "exp"}
                 /\ ~IsHash(b.token.payload.username)
           /\ "lastWithdrawal" \in DOMAIN b => ~IsHash(b.lastWithdrawal)
           /\ (last.req.kind = "getAccount" /\ Succeeded(last)) =>
                 /\ DOMAIN b = AccountFields
                 /\ b = last.h.pre[Customer].account

\* getAccount answered 200 with the four account fields.
C20_Witness ==
    /\ IsCall(last) /\ last.req.kind = "getAccount" /\ ByCustomer(last)
    /\ Succeeded(last)
    /\ DOMAIN last.res.body = AccountFields
    /\ IsHash(users[Customer].passwordHash)

----------------------------------------------------------------------------
\* C21: a token that login answers with carries the username that was
\* verified and an expiry of its issued-at time plus exactly one hour, and
\* only a login whose credentials matched a stored record answers with one.
OneHour == 60 * 60

HasToken(x) ==
    x # Nothing /\ x.res # NoResponse /\ "token" \in DOMAIN x.res.body

C21_TokenOfVerifiedLogin ==
    /\ HasToken(last) =>
          LET payload == last.res.body.token.payload
          IN /\ IsLogin(last) /\ Succeeded(last)
             /\ last.h.compared
             /\ Matches(last.req.body.username, last.req.body.password)
             /\ payload.username = last.req.body.username
             /\ payload.iat = last.h.at
             /\ payload.exp = payload.iat + OneHour
    /\ (IsLogin(last) /\ last.res # NoResponse /\ Succeeded(last)) => HasToken(last)
    /\ \A i \in issued :
          /\ i.user \in DOMAIN users
          /\ i.tok.payload.username = JStr(i.user)
          /\ i.tok.payload.exp = i.tok.payload.iat + OneHour

\* A login at 3599 was answered with a token for customer1 that expires at
\* 7199.
C21_Witness ==
    /\ HasToken(last)
    /\ last.res.body.token.payload =
           [username |-> JStr(Customer), iat |-> 3599, exp |-> 7199]
    /\ last.req.body.password = JStr("bank123")

ActsOnAccount(x) ==
    IsCall(x) /\ x.h.ran /\ Resolves(x.h.user, x.h.pre)

C23_LoginPrecedesLedger ==
    [][/\ issued' # issued =>
             /\ IsLogin(last') /\ Succeeded(last')
             /\ Matches(last'.req.body.username, last'.req.body.password)
             /\ last'.res.body.token.payload.iat = now'
             /\ issued' = issued \cup {[tok |-> last'.res.body.token,
                                         user |-> last'.req.body.username.s]}
       /\ ActsOnAccount(last') =>
             \E i \in issued' :
                 /\ last'.req.header = Bearer(i.tok)
                 /\ last'.h.user = [username |-> JStr(i.user)]
                 /\ i.tok.payload.iat <= last'.h.at
                 /\ last'.h.at - i.tok.payload.iat < OneHour
       /\ (IsCall(last') /\ last'.h.touched) => ActsOnAccount(last')]_vars

\* A withdraw ran for customer1 in the last second of the hour after the
\* login that issued its token.
C23_Witness ==
    \E i \in issued :
        /\ ActsOnAccount(last)
        /\ last.req.kind = "withdraw" /\ Succeeded(last)
        /\ last.req.header = Bearer(i.tok)
        /\ last.h.at - i.tok.payload.iat = OneHour - 1

\* C24: account isolation: a request that passed the gate with a token for
\* username u answers from u's account and changes u's account only; the
\* account of every other username v is left as it was, and v's balance and
\* lastWithdrawal are not in the response.
TokenIsFor(x, v) == x.h.user = [username |-> JStr(v)]

C24_AccountIsolation ==
    (IsCall(last) /\ last.h.ran) =>
        \A v \in DOMAIN last.h.pre :
            IF TokenIsFor(last, v)
            THEN /\ \A w \in DOMAIN last.h.pre \ {v} : last.h.post[w] = last.h.pre[w]
                 /\ (Succeeded(last) /\ "balance" \in DOMAIN last.res.body) =>
                        last.res.body.balance = last.h.post[v].account.balance
            ELSE /\ last.h.post[v] = last.h.pre[v]
                 /\ users[v] = last.h.pre[v]
                 /\ DOMAIN last.res.body \cap {"balance", "lastWithdrawal"} = {}

\* After customer1 withdrew 1000, a read under a token for another username
\* was answered 404 and shows nothing of customer1's account.
C24_Witness ==
    /\ IsCall(last) /\ last.h.ran
    /\ last.req.kind = "getAccount"
    /\ TokenIsFor(last, "toString")
    /\ last.res = AccountNotFound
    /\ Balance(users) = 1000
    /\ LastWithdrawal(users) = JNum(1000)

====
